---- MODULE Spec2Model ----
(***************************************************************************)
(* Model of the RF vs PolicyEngine UC comparison dashboard                 *)
(* (dashboard/src/App.jsx and its table-layout variant).                   *)
(*                                                                         *)
(* JavaScript strings are sequences of one-character strings, so that      *)
(* trim, split, startsWith, endsWith, slice, isNaN and parseFloat are      *)
(* computed character by character as the code computes them.              *)
(* JavaScript values are records [t, n, s]: t is the kind ("undefined",    *)
(* "null", "nan", "num", "str"), n the number, s the string.               *)
(***************************************************************************)
EXTENDS Integers, Sequences, FiniteSets, TLC

VARIABLES
    \* ---- App component (useState hooks and the loadData coroutine)
    metadata, comparison, elements, policyImpacts, loading, error,
    pc, fetchSt, resp, textSt, caught, arrival,
    \* ---- parseCSV called on one text
    csvIn, csvOut, csvDone,
    \* ---- formatValue / formatDiff / StatusBadge called on one input
    fmtIn, fmtOut, fmtOp,
    \* ---- one render of ElementsChart, of the comparison sections or of
    \* ---- ComparisonTable on given props
    renIn, renOut, renOp,
    \* ---- the ComparisonCard instances of one dashboard and their clicks
    cardRows, expanded, clicked

appVars == <<metadata, comparison, elements, policyImpacts, loading, error,
             pc, fetchSt, resp, textSt, caught, arrival>>
csvVars == <<csvIn, csvOut, csvDone>>
fmtVars == <<fmtIn, fmtOut, fmtOp>>
renVars == <<renIn, renOut, renOp>>
cardVars == <<cardRows, expanded, clicked>>
vars == <<appVars, csvVars, fmtVars, renVars, cardVars>>

-----------------------------------------------------------------------------
(* JavaScript values *)

Undefined == [t |-> "undefined", n |-> 0, s |-> <<>>]
Null == [t |-> "null", n |-> 0, s |-> <<>>]
NaN == [t |-> "nan", n |-> 0, s |-> <<>>]
Num(k) == [t |-> "num", n |-> k, s |-> <<>>]
Str(chars) == [t |-> "str", n |-> 0, s |-> chars]

\* ToBoolean: undefined, null, NaN, 0 and '' are falsy.
Truthy(v) ==
    CASE v.t = "undefined" -> FALSE
      [] v.t = "null" -> FALSE
      [] v.t = "nan" -> FALSE
      [] v.t = "num" -> v.n # 0
      [] OTHER -> v.s # <<>>

-----------------------------------------------------------------------------
(* String primitives *)

Quote == "\""
Whitespace == {" ", "\n"}
Digits == <<"0", "1", "2", "3", "4", "5", "6", "7", "8", "9">>
IsDigit(c) == \E d \in 1..10 : Digits[d] = c
DigitVal(c) == (CHOOSE d \in 1..10 : Digits[d] = c) - 1

\* String.prototype.trim
RECURSIVE TrimLeft(_)
TrimLeft(str) ==
    IF str # <<>> /\ Head(str) \in Whitespace THEN TrimLeft(Tail(str)) ELSE str

RECURSIVE TrimRight(_)
TrimRight(str) ==
    IF str # <<>> /\ str[Len(str)] \in Whitespace
    THEN TrimRight(SubSeq(str, 1, Len(str) - 1))
    ELSE str

Trim(str) == TrimRight(TrimLeft(str))

\* String.prototype.split with a one-character separator: always at least
\* one piece, cut at every occurrence of the separator.
RECURSIVE Split(_, _)
Split(str, sep) ==
    IF \E i \in 1..Len(str) : str[i] = sep
    THEN LET i == CHOOSE j \in 1..Len(str) :
                      str[j] = sep /\ \A k \in 1..(j - 1) : str[k] # sep
         IN <<SubSeq(str, 1, i - 1)>> \o Split(SubSeq(str, i + 1, Len(str)), sep)
    ELSE <<str>>

StartsWith(str, c) == str # <<>> /\ str[1] = c
EndsWith(str, c) == str # <<>> /\ str[Len(str)] = c

\* str.slice(1, -1)
Slice1(str) == SubSeq(str, 2, Len(str) - 1)

RECURSIVE DigitsValue(_)
DigitsValue(ds) ==
    IF ds = <<>> THEN 0
    ELSE 10 * DigitsValue(SubSeq(ds, 1, Len(ds) - 1)) + DigitVal(ds[Len(ds)])

IsDigits(str) == str # <<>> /\ \A i \in 1..Len(str) : IsDigit(str[i])

\* The decimal literals of the model's alphabet: an optional minus sign
\* followed by digits.
IsDecimal(str) ==
    IF StartsWith(str, "-") THEN IsDigits(Tail(str)) ELSE IsDigits(str)

DecimalValue(str) ==
    IF StartsWith(str, "-") THEN 0 - DigitsValue(Tail(str)) ELSE DigitsValue(str)

\* Number(str): the whole trimmed string must be a numeric literal; the
\* empty (or all-whitespace) string converts to 0.
ToNumber(str) ==
    LET t == Trim(str)
    IN IF t = <<>> THEN Num(0)
       ELSE IF IsDecimal(t) THEN Num(DecimalValue(t))
       ELSE NaN

\* isNaN(str)
IsNaN(str) == ToNumber(str).t = "nan"

\* parseFloat(str): leading whitespace is skipped and the longest numeric
\* prefix is converted; no such prefix gives NaN.
RECURSIVE DigitPrefix(_)
DigitPrefix(str) ==
    IF str # <<>> /\ IsDigit(Head(str))
    THEN <<Head(str)>> \o DigitPrefix(Tail(str))
    ELSE <<>>

ParseFloat(str) ==
    LET t == TrimLeft(str)
        neg == StartsWith(t, "-")
        ds == DigitPrefix(IF neg THEN Tail(t) ELSE t)
    IN IF ds = <<>> THEN NaN
       ELSE Num(IF neg THEN 0 - DigitsValue(ds) ELSE DigitsValue(ds))

\* Array.prototype.join
RECURSIVE Join(_, _)
Join(parts, sep) ==
    IF parts = <<>> THEN <<>>
    ELSE IF Len(parts) = 1 THEN parts[1]
    ELSE parts[1] \o <<sep>> \o Join(Tail(parts), sep)

-----------------------------------------------------------------------------
(* parseCSV *)

\* values[i]: undefined beyond the end of the array.
ValueAt(values, i) == IF i <= Len(values) THEN Str(values[i]) ELSE Undefined

\* "Handle quoted values": val.slice(1, -1) when val is truthy and starts
\* and ends with a double quote.
StripQuotes(val) ==
    IF Truthy(val) /\ StartsWith(val.s, Quote) /\ EndsWith(val.s, Quote)
    THEN Str(Slice1(val.s))
    ELSE val

\* "Parse numbers": the three-way branch that decides what is stored.
\* (StoreValueNoneKept: the branch without the test for the word None.)
StoreValueNoneKept(val) ==
    IF Truthy(val) /\ ~IsNaN(val.s) /\ val # Str(<<>>)
    THEN ParseFloat(val.s)
    ELSE IF val = Str(<<>>)
    THEN Null
    ELSE val
StoreValue(val) ==
    IF Truthy(val) /\ ~IsNaN(val.s) /\ val # Str(<<>>)
    THEN ParseFloat(val.s)
    ELSE IF val = Str(<<>>) \/ val = Str(<<"N", "o", "n", "e">>)
    THEN Null
    ELSE val

ConvertField(values, i) == StoreValue(StripQuotes(ValueAt(values, i)))

\* headers.forEach((header, i) => obj[header] = ...): the first n headers
\* assigned in order into one object, a later assignment to the same key
\* replacing the earlier one.
RECURSIVE ForEachHeader(_, _, _)
ForEachHeader(headers, values, n) ==
    IF n = 0 THEN [h \in {} |-> Undefined]
    ELSE LET obj == ForEachHeader(headers, values, n - 1)
         IN [h \in (DOMAIN obj) \cup {headers[n]} |->
                IF h = headers[n] THEN ConvertField(values, n) ELSE obj[h]]

\* A split that does not cut inside a pair of double quotes.
RECURSIVE SplitOutsideQuotes(_, _, _)
SplitOutsideQuotes(str, cur, inQuotes) ==
    IF str = <<>> THEN <<cur>>
    ELSE IF Head(str) = "," /\ ~inQuotes
    THEN <<cur>> \o SplitOutsideQuotes(Tail(str), <<>>, FALSE)
    ELSE SplitOutsideQuotes(Tail(str), Append(cur, Head(str)),
                            IF Head(str) = Quote THEN ~inQuotes ELSE inQuotes)

\* (ParseLineQuoteAware: the callback with a split that respects quotes.)
ParseLineQuoteAware(headers, line) ==
    ForEachHeader(headers, SplitOutsideQuotes(line, <<>>, FALSE), Len(headers))
ParseLine(headers, line) ==
    ForEachHeader(headers, Split(line, ","), Len(headers))

\* (parseCSVNoTrim: parseCSV without the trim of the whole text.)
parseCSVNoTrim(text) ==
    LET lines == Split(text, "\n")
        headers == Split(lines[1], ",")
    IN [k \in 1..(Len(lines) - 1) |-> ParseLine(headers, lines[k + 1])]
parseCSV(text) ==
    LET lines == Split(Trim(text), "\n")
        headers == Split(lines[1], ",")
    IN [k \in 1..(Len(lines) - 1) |-> ParseLine(headers, lines[k + 1])]
-----------------------------------------------------------------------------
(* Inputs of parseCSV: texts built from header names and fields *)

MaxCols == 3

FEmpty == <<>>
FText == <<"a">>
FNumber == <<"1", "2">>
FNone == <<"N", "o", "n", "e">>
FQuotedComma == <<Quote, "a", ",", "b", Quote>>
FQuotedLeadingComma == <<Quote, ",", "b", Quote>>

\* Fields every line is built from.
FieldPool == {FEmpty, FText, FNumber, FNone, FQuotedComma, FQuotedLeadingComma}

\* Further lines following the first data line. TailB: quoted text, a blank
\* field and a quoted number; a blank line in the middle; a negative number
\* and an empty quoted field. TailC: a quoted field with two commas.
TailA == << <<FNumber>> >>
TailB == << << <<Quote, "x", Quote>>, <<" ">>, <<Quote, "7", Quote>> >>,
            << FEmpty >>,
            << <<"-", "3">>, <<Quote, Quote>>, FText >> >>
TailC == << << <<Quote, "a", ",", "b", ",", "c", Quote>>, FText >> >>
TailPool == {<<>>, TailA, TailB, TailC}

HeaderNames == <<<<"h">>, <<"k">>, <<"m">>, <<"n">>, <<"p">>>>

\* Header rows: the first n names, and the rows that repeat the first name.
HeaderPool ==
    {SubSeq(HeaderNames, 1, n) : n \in 1..MaxCols}
        \cup {<<HeaderNames[1], HeaderNames[1]>> : n \in 2..MaxCols}
        \cup {<<HeaderNames[1], HeaderNames[2], HeaderNames[1]>> : n \in 3..MaxCols}

\* Whitespace around the whole text: none, a final newline, blanks and
\* newlines on both sides.
PadPool == {<< <<>>, <<>> >>, << <<>>, <<"\n">> >>, << <<" ", "\n">>, <<" ", "\n">> >>}

SeqsUpTo(S, n) == UNION {[1..k -> S] : k \in 1..n}

RowsPool ==
    {<<>>} \cup {<<first>> \o tail : first \in SeqsUpTo(FieldPool, MaxCols), tail \in TailPool}

CsvInputs == [headers : HeaderPool, rows : RowsPool, pad : PadPool]

LineOf(fields) == Join(fields, ",")
TextLines(in) == <<LineOf(in.headers)>> \o [k \in 1..Len(in.rows) |-> LineOf(in.rows[k])]
TextOf(in) == in.pad[1] \o Join(TextLines(in), "\n") \o in.pad[2]

NotParsed == <<>>

CsvInit ==
    /\ csvIn \in CsvInputs
    /\ csvOut = NotParsed
    /\ csvDone = FALSE

CsvIdle ==
    /\ csvIn = [headers |-> <<>>, rows |-> <<>>, pad |-> << <<>>, <<>> >>]
    /\ csvOut = NotParsed
    /\ csvDone = TRUE

\* One call parseCSV(text).
ParseCSVCall ==
    /\ ~csvDone
    /\ csvOut' = parseCSV(TextOf(csvIn))
    /\ csvDone' = TRUE
    /\ UNCHANGED <<csvIn, appVars, fmtVars, renVars, cardVars>>
-----------------------------------------------------------------------------
(* App: the six useState hooks and loadData *)

\* The four requests, in the order of the arrays given to Promise.all:
\* metadata.csv, comparison.csv, uc_elements.csv, policy_impacts.csv.
Requests == 1..4

MetadataCsv == <<"v", ",", "y", "\n", "2", ",", "5">>
MetadataCsvNoRow == <<"v", ",", "y", "\n">>
ComparisonCsv == <<"m", ",", "d", "\n", "a", ",", "1", "\n", "b", ",", "-", "2">>
ElementsCsv == <<"e", ",", "x", "\n", "s", ",", "3">>
EmptyCsv == <<>>
PolicyCsv == <<"c", ",", "u", "\n", "k", ",", "4">>

\* What the server holds for each file.
FileTexts(i) ==
    CASE i = 1 -> {MetadataCsv, MetadataCsvNoRow}
      [] i = 2 -> {ComparisonCsv}
      [] i = 3 -> {ElementsCsv, EmptyCsv}
      [] OTHER -> {PolicyCsv}

\* The body of an answer with a non-success status (an error page).
ErrorPage == <<"e", "r", "r", "\n", "4", "0", "4">>

\* A Response: fetch() fulfils with it whatever its HTTP status.
Responses(i) ==
    {[ok |-> TRUE, body |-> t] : t \in FileTexts(i)}
        \cup {[ok |-> FALSE, body |-> ErrorPage]}

NoResponse == [ok |-> FALSE, body |-> <<>>]

\* err.message of the rejection of fetch(i) and of response(i).text(): the
\* TypeError a browser rejects with carries a non-empty message; each
\* request has a message of its own here, so that the one shown is known.
FetchError(i) == Str(<<"F", Digits[i + 1]>>)
TextError(i) == Str(<<"T", Digits[i + 1]>>)

\* useState(null) for metadata; parseCSV(text)[0] is undefined for an
\* empty array.
MetaNull == [t |-> "null", row |-> <<>>]
ArrayFirst(arr) ==
    IF arr = <<>> THEN [t |-> "undefined", row |-> <<>>]
    ELSE [t |-> "object", row |-> <<arr[1]>>]

AppInit ==
    /\ metadata = MetaNull
    /\ comparison = <<>>
    /\ elements = <<>>
    /\ policyImpacts = <<>>
    /\ loading = TRUE
    /\ error = Null
    /\ pc = "mounted"
    /\ fetchSt = [i \in Requests |-> "unsent"]
    /\ resp = [i \in Requests |-> NoResponse]
    /\ textSt = [i \in Requests |-> "unread"]
    /\ caught = Null
    /\ arrival = <<>>

\* Inside a continuation of loadData nothing else runs (run to completion).
Running ==
    pc \in {"setMetadata", "setComparison", "setElements", "setPolicyImpacts",
            "setLoading", "catchSetError", "catchSetLoading"}

\* useEffect(() => { loadData() }, []): the four fetch calls.
RunEffect ==
    /\ pc = "mounted"
    /\ fetchSt' = [i \in Requests |-> "pending"]
    /\ pc' = "awaitFetches"
    /\ UNCHANGED <<metadata, comparison, elements, policyImpacts, loading, error,
                   resp, textSt, caught, arrival, csvVars, fmtVars, renVars, cardVars>>

\* fetch(i) fulfils. When it is the last one, the first Promise.all fulfils
\* and loadData goes on to call text() on the four responses.
FetchFulfil(i, r) ==
    /\ ~Running
    /\ fetchSt[i] = "pending"
    /\ fetchSt' = [fetchSt EXCEPT ![i] = "fulfilled"]
    /\ resp' = [resp EXCEPT ![i] = r]
    /\ IF pc = "awaitFetches" /\ \A j \in Requests \ {i} : fetchSt[j] = "fulfilled"
       THEN /\ textSt' = [j \in Requests |-> "pending"]
            /\ pc' = "awaitTexts"
       ELSE UNCHANGED <<textSt, pc>>
    /\ UNCHANGED <<metadata, comparison, elements, policyImpacts, loading, error,
                   caught, arrival, csvVars, fmtVars, renVars, cardVars>>

\* fetch(i) rejects. The first rejection rejects Promise.all and loadData
\* enters its catch block; a later one finds nobody waiting.
\* (FetchRejectAlways: every rejection runs the catch block again.)
FetchRejectAlways(i) ==
    /\ ~Running
    /\ fetchSt[i] = "pending"
    /\ fetchSt' = [fetchSt EXCEPT ![i] = "rejected"]
    /\ caught' = FetchError(i)
    /\ pc' = "catchSetError"
    /\ UNCHANGED <<metadata, comparison, elements, policyImpacts, loading, error,
                   resp, textSt, arrival, csvVars, fmtVars, renVars, cardVars>>
FetchReject(i) ==
    /\ ~Running
    /\ fetchSt[i] = "pending"
    /\ fetchSt' = [fetchSt EXCEPT ![i] = "rejected"]
    /\ IF pc = "awaitFetches"
       THEN /\ caught' = FetchError(i)
            /\ pc' = "catchSetError"
       ELSE UNCHANGED <<caught, pc>>
    /\ UNCHANGED <<metadata, comparison, elements, policyImpacts, loading, error,
                   resp, textSt, arrival, csvVars, fmtVars, renVars, cardVars>>

\* response(i).text() fulfils with the body. When it is the last one, the
\* second Promise.all fulfils.
TextFulfil(i) ==
    /\ ~Running
    /\ textSt[i] = "pending"
    /\ textSt' = [textSt EXCEPT ![i] = "fulfilled"]
    /\ arrival' = Append(arrival, i)
    /\ IF pc = "awaitTexts" /\ \A j \in Requests \ {i} : textSt[j] = "fulfilled"
       THEN pc' = "setMetadata"
       ELSE UNCHANGED pc
    /\ UNCHANGED <<metadata, comparison, elements, policyImpacts, loading, error,
                   fetchSt, resp, caught, csvVars, fmtVars, renVars, cardVars>>

\* response(i).text() rejects.
TextReject(i) ==
    /\ ~Running
    /\ textSt[i] = "pending"
    /\ textSt' = [textSt EXCEPT ![i] = "rejected"]
    /\ IF pc = "awaitTexts"
       THEN /\ caught' = TextError(i)
            /\ pc' = "catchSetError"
       ELSE UNCHANGED <<caught, pc>>
    /\ UNCHANGED <<metadata, comparison, elements, policyImpacts, loading, error,
                   fetchSt, resp, arrival, csvVars, fmtVars, renVars, cardVars>>

\* const [metaText, compText, elemText, policyText] = await Promise.all(...):
\* the texts in the order of the array of promises.
\* (TextsInArrivalOrder: the texts in the order the reads completed.)
TextsInArrivalOrder == [i \in Requests |-> resp[arrival[i]].body]
Texts == [i \in Requests |-> resp[i].body]

\* The five setter calls of the try block, each of which may commit a
\* render of its own.
\* (SetMetadataLoadingFirst: setLoading(false) called with the first setter.)
SetMetadataLoadingFirst ==
    /\ pc = "setMetadata"
    /\ metadata' = ArrayFirst(parseCSV(Texts[1]))
    /\ loading' = FALSE
    /\ pc' = "setComparison"
    /\ UNCHANGED <<comparison, elements, policyImpacts, error,
                   fetchSt, resp, textSt, caught, arrival, csvVars, fmtVars, renVars, cardVars>>
SetMetadata ==
    /\ pc = "setMetadata"
    /\ metadata' = ArrayFirst(parseCSV(Texts[1]))
    /\ pc' = "setComparison"
    /\ UNCHANGED <<comparison, elements, policyImpacts, loading, error,
                   fetchSt, resp, textSt, caught, arrival, csvVars, fmtVars, renVars, cardVars>>

SetComparison ==
    /\ pc = "setComparison"
    /\ comparison' = parseCSV(Texts[2])
    /\ pc' = "setElements"
    /\ UNCHANGED <<metadata, elements, policyImpacts, loading, error,
                   fetchSt, resp, textSt, caught, arrival, csvVars, fmtVars, renVars, cardVars>>

SetElements ==
    /\ pc = "setElements"
    /\ elements' = parseCSV(Texts[3])
    /\ pc' = "setPolicyImpacts"
    /\ UNCHANGED <<metadata, comparison, policyImpacts, loading, error,
                   fetchSt, resp, textSt, caught, arrival, csvVars, fmtVars, renVars, cardVars>>

SetPolicyImpacts ==
    /\ pc = "setPolicyImpacts"
    /\ policyImpacts' = parseCSV(Texts[4])
    /\ pc' = "setLoading"
    /\ UNCHANGED <<metadata, comparison, elements, loading, error,
                   fetchSt, resp, textSt, caught, arrival, csvVars, fmtVars, renVars, cardVars>>

\* (SetLoadingForgotten: a try block that ends without setLoading(false).)
SetLoadingForgotten ==
    /\ pc = "setLoading"
    /\ pc' = "done"
    /\ UNCHANGED <<metadata, comparison, elements, policyImpacts, loading, error,
                   fetchSt, resp, textSt, caught, arrival, csvVars, fmtVars, renVars, cardVars>>
SetLoading ==
    /\ pc = "setLoading"
    /\ loading' = FALSE
    /\ pc' = "done"
    /\ UNCHANGED <<metadata, comparison, elements, policyImpacts, error,
                   fetchSt, resp, textSt, caught, arrival, csvVars, fmtVars, renVars, cardVars>>

\* The two setter calls of the catch block.
\* (CatchSetErrorSkipped: a catch block that does not call setError.)
CatchSetErrorSkipped ==
    /\ pc = "catchSetError"
    /\ pc' = "catchSetLoading"
    /\ UNCHANGED <<metadata, comparison, elements, policyImpacts, loading, error,
                   fetchSt, resp, textSt, caught, arrival, csvVars, fmtVars, renVars, cardVars>>
CatchSetError ==
    /\ pc = "catchSetError"
    /\ error' = caught
    /\ pc' = "catchSetLoading"
    /\ UNCHANGED <<metadata, comparison, elements, policyImpacts, loading,
                   fetchSt, resp, textSt, caught, arrival, csvVars, fmtVars, renVars, cardVars>>

CatchSetLoading ==
    /\ pc = "catchSetLoading"
    /\ loading' = FALSE
    /\ pc' = "done"
    /\ UNCHANGED <<metadata, comparison, elements, policyImpacts, error,
                   fetchSt, resp, textSt, caught, arrival, csvVars, fmtVars, renVars, cardVars>>

\* What App returns: the two early returns, then the dashboard.
View ==
    IF loading THEN "loading"
    ELSE IF Truthy(error) THEN "error"
    ELSE "dashboard"
-----------------------------------------------------------------------------
(* Formatting helpers of the table dashboard, and StatusBadge *)

\* One-character tokens for the two non-ASCII characters of the source.
Pound == "POUND"
Dash == "EMDASH"

RECURSIVE NatToString(_)
NatToString(k) ==
    IF k < 10 THEN <<Digits[k + 1]>>
    ELSE NatToString(k \div 10) \o <<Digits[(k % 10) + 1]>>

\* Number.prototype.toString for an integer.
NumberToString(k) ==
    IF k < 0 THEN <<"-">> \o NatToString(0 - k) ELSE NatToString(k)

\* Digits grouped in threes from the right.
RECURSIVE Grouped(_)
Grouped(ds) ==
    IF Len(ds) <= 3 THEN ds
    ELSE Grouped(SubSeq(ds, 1, Len(ds) - 3)) \o <<",">> \o SubSeq(ds, Len(ds) - 2, Len(ds))

\* String(v), as a template literal's ${v} converts.
ToStr(v) ==
    CASE v.t = "undefined" -> <<"u", "n", "d", "e", "f", "i", "n", "e", "d">>
      [] v.t = "null" -> <<"n", "u", "l", "l">>
      [] v.t = "nan" -> <<"N", "a", "N">>
      [] v.t = "num" -> NumberToString(v.n)
      [] OTHER -> v.s

\* v.toLocaleString() in an English locale, for a number or a string.
ToLocaleString(v) ==
    CASE v.t = "num" ->
            IF v.n < 0 THEN <<"-">> \o Grouped(NatToString(0 - v.n))
            ELSE Grouped(NatToString(v.n))
      [] v.t = "nan" -> <<"N", "a", "N">>
      [] OTHER -> v.s

IsNullish(v) == v.t \in {"null", "undefined"}

\* v >= 0: v converted to a number, null to 0, undefined to NaN, a string
\* by Number(); false whenever the conversion gives NaN.
GreaterEqualZero(v) ==
    CASE v.t = "undefined" -> FALSE
      [] v.t = "null" -> TRUE
      [] v.t = "nan" -> FALSE
      [] v.t = "num" -> v.n >= 0
      [] OTHER -> ToNumber(v.s).t = "num" /\ ToNumber(v.s).n >= 0

UnitPound == Str(<<Pound>>)
UnitBn == Str(<<"b", "n">>)
UnitPct == Str(<<"%">>)
UnitK == Str(<<"k">>)
UnitM == Str(<<"m">>)

\* if (pct !== null && pct !== undefined) str += ` (${pct}%)`
\* (PctSuffixTruthy: the test written as a truthiness test, if (pct).)
PctSuffixTruthy(pct) ==
    IF Truthy(pct) THEN <<" ", "(">> \o ToStr(pct) \o <<"%", ")">> ELSE <<>>
PctSuffix(pct) ==
    IF ~IsNullish(pct) THEN <<" ", "(">> \o ToStr(pct) \o <<"%", ")">> ELSE <<>>

\* The if / else-if chain of formatValue on unit.
UnitText(val, unit) ==
    CASE unit = UnitPound -> <<Pound>> \o ToLocaleString(val)
      [] unit = UnitBn -> <<Pound>> \o ToStr(val) \o <<"b", "n">>
      [] unit = UnitPct -> ToStr(val) \o <<"%">>
      [] unit = UnitK -> ToLocaleString(val) \o <<"k">>
      [] unit = UnitM -> ToStr(val) \o <<"m">>
      [] OTHER -> ToStr(val) \o ToStr(unit)

formatValue(val, unit, pct) ==
    IF IsNullish(val) THEN <<Dash>>
    ELSE UnitText(val, unit) \o PctSuffix(pct)

\* const sign = val >= 0 ? '+' : ''
\* (DiffSignStrict: the test written val > 0.)
DiffSignStrict(val) == IF val.t = "num" /\ val.n > 0 THEN <<"+">> ELSE <<>>
DiffSign(val) == IF GreaterEqualZero(val) THEN <<"+">> ELSE <<>>

formatDiff(val, unit) ==
    IF IsNullish(val) THEN <<Dash>>
    ELSE CASE unit = UnitPound -> DiffSign(val) \o <<Pound>> \o ToStr(val)
           [] unit = UnitBn -> DiffSign(val) \o <<Pound>> \o ToStr(val) \o <<"b", "n">>
           [] unit = UnitPct -> DiffSign(val) \o ToStr(val) \o <<"p", "p">>
           [] unit = UnitK -> DiffSign(val) \o ToStr(val) \o <<"k">>
           [] unit = UnitM -> DiffSign(val) \o ToStr(val) \o <<"m">>
           [] OTHER -> DiffSign(val) \o ToStr(val) \o ToStr(unit)

\* The colors object literal of StatusBadge. A status word, a colour and a
\* label are each one token.
BadgeCloseMatch == [bg |-> Str(<<"#dcfce7">>), text |-> Str(<<"#166534">>),
                    label |-> Str(<<"Close Match">>)]
BadgeModerateDiff == [bg |-> Str(<<"#fef3c7">>), text |-> Str(<<"#92400e">>),
                      label |-> Str(<<"Moderate Diff">>)]
BadgeLargeDiscrepancy == [bg |-> Str(<<"#fee2e2">>), text |-> Str(<<"#991b1b">>),
                          label |-> Str(<<"Large Gap">>)]

\* The property names an object literal inherits from Object.prototype.
InheritedKeys ==
    {<<"constructor">>, <<"toString">>, <<"toLocaleString">>, <<"valueOf">>,
     <<"hasOwnProperty">>, <<"isPrototypeOf">>, <<"propertyIsEnumerable">>,
     <<"__proto__">>}

\* An inherited member read as { bg, text, label }: it has none of the three.
BadgeOfInherited == [bg |-> Undefined, text |-> Undefined, label |-> Undefined]

\* const { bg, text, label } = colors[status] || colors.moderate_diff
\* colors[status] looks the key String(status) up in the literal and then
\* in its prototype; what it finds there is truthy.
StatusBadge(status) ==
    LET key == ToStr(status)
    IN CASE key = <<"close_match">> -> BadgeCloseMatch
         [] key = <<"moderate_diff">> -> BadgeModerateDiff
         [] key = <<"large_discrepancy">> -> BadgeLargeDiscrepancy
         [] key \in InheritedKeys -> BadgeOfInherited
         [] OTHER -> BadgeModerateDiff

ValPool == {Null, Undefined, Num(0 - 1234), Num(0 - 1), Num(0), Num(7), Num(1030),
            Num(1234567), Str(<<"n", "/", "a">>)}
UnitPool == {UnitPound, UnitBn, UnitPct, UnitK, UnitM, Str(<<"h", "h">>), Null}
PctPool == {Null, Undefined, Num(0), Num(26)}
StatusPool == {Str(<<"close_match">>), Str(<<"moderate_diff">>),
               Str(<<"large_discrepancy">>), Str(<<"unknown">>), Str(<<>>),
               Str(<<"constructor">>), Null, Undefined}

FmtInputs == [val : ValPool, unit : UnitPool, pct : PctPool, status : StatusPool]

FmtInit ==
    /\ fmtIn \in FmtInputs
    /\ fmtOp = "none"
    /\ fmtOut = <<>>

FmtIdle ==
    /\ fmtIn = [val |-> Null, unit |-> Null, pct |-> Null, status |-> Null]
    /\ fmtOp = "idle"
    /\ fmtOut = <<>>

CallFormatValue ==
    /\ fmtOp = "none"
    /\ fmtOp' = "formatValue"
    /\ fmtOut' = formatValue(fmtIn.val, fmtIn.unit, fmtIn.pct)
    /\ UNCHANGED <<fmtIn, appVars, csvVars, renVars, cardVars>>

CallFormatDiff ==
    /\ fmtOp = "none"
    /\ fmtOp' = "formatDiff"
    /\ fmtOut' = formatDiff(fmtIn.val, fmtIn.unit)
    /\ UNCHANGED <<fmtIn, appVars, csvVars, renVars, cardVars>>

CallStatusBadge ==
    /\ fmtOp = "none"
    /\ fmtOp' = "StatusBadge"
    /\ fmtOut' = StatusBadge(fmtIn.status)
    /\ UNCHANGED <<fmtIn, appVars, csvVars, renVars, cardVars>>

\* The difference cell of one line of ComparisonTable:
\* <td className={`diff-value ${row.diff_value >= 0 ? 'positive' : 'negative'}`}>
\*   {formatDiff(row.diff_value, row.rf_unit)}</td>
DiffClass(diff_value) ==
    IF GreaterEqualZero(diff_value) THEN "positive" ELSE "negative"

DiffCell(diff_value, rf_unit) ==
    [class |-> DiffClass(diff_value), text |-> formatDiff(diff_value, rf_unit)]

RenderDiffCell ==
    /\ fmtOp = "none"
    /\ fmtOp' = "DiffCell"
    /\ fmtOut' = DiffCell(fmtIn.val, fmtIn.unit)
    /\ UNCHANGED <<fmtIn, appVars, csvVars, renVars, cardVars>>


-----------------------------------------------------------------------------
(* ElementsChart *)

MaxElems == 3
MaxExp == 3

\* A JavaScript number that is a quotient of two integers, or NaN, or an
\* infinity: [t, n, d] with t one of "ratio" (n / d, d > 0), "nan", "inf",
\* "-inf".
Ratio(n, d) == [t |-> "ratio", n |-> n, d |-> d]
NotANumber == [t |-> "nan", n |-> 0, d |-> 1]
PosInfinity == [t |-> "inf", n |-> 0, d |-> 1]
NegInfinity == [t |-> "-inf", n |-> 0, d |-> 1]

\* Math.max(...xs) for non-negative integers xs: -Infinity without
\* arguments.
RECURSIVE MathMax(_)
MathMax(xs) ==
    IF xs = <<>> THEN NegInfinity
    ELSE LET rest == MathMax(Tail(xs))
         IN IF rest.t = "-inf" \/ Head(xs) > rest.n
            THEN Ratio(Head(xs), 1)
            ELSE rest

\* (e / maxVal) * 100 for a non-negative integer e: 0 / 0 is NaN, e / 0
\* is Infinity for e > 0, e / -Infinity is (minus) zero. The quotient is kept
\* exact; rounding to a double keeps the order, 1 and 0.
BarWidth(e, maxVal) ==
    IF maxVal.t = "-inf" THEN Ratio(0, 1)
    ELSE IF maxVal.n = 0
         THEN IF e = 0 THEN NotANumber ELSE PosInfinity
         ELSE Ratio(e * 100, maxVal.n)

\* The widths of the bars, in the order of the elements.
ElementsChart(els) ==
    LET maxVal == MathMax([i \in 1..Len(els) |-> els[i].expenditure_bn])
    IN [i \in 1..Len(els) |-> BarWidth(els[i].expenditure_bn, maxVal)]

\* Lists of up to MaxElems elements with expenditures 0..MaxExp.
ChartInputs ==
    UNION {[1..k -> [expenditure_bn : 0..MaxExp]] : k \in 0..MaxElems}

ChartInit ==
    /\ renIn \in ChartInputs
    /\ renOut = <<>>
    /\ renOp = "idle"

RenderElementsChart ==
    /\ renOp = "idle"
    /\ renOut' = ElementsChart(renIn)
    /\ renOp' = "ElementsChart"
    /\ UNCHANGED <<renIn, appVars, csvVars, fmtVars, cardVars>>

-----------------------------------------------------------------------------
(* ComparisonCard *)

MaxCards == 2

\* data.note as parseCSV stores it: a missing column (undefined), the cell
\* None (null), an empty cell, a text, or a cell that reads as a number.
NotePool == {Undefined, Null, Str(<<>>), Str(<<"n">>), Num(0), Num(5)}

\* The rows given to the cards of one dashboard.
CardInputs ==
    UNION {[1..k -> [note : NotePool]] : k \in 1..MaxCards}

\* The last click: the card it was on and that card's expanded before it.
NoClick == [card |-> 0, was |-> FALSE]

\* useState(false) in each card as the cards mount.
CardInit ==
    /\ cardRows \in CardInputs
    /\ expanded = [i \in 1..Len(cardRows) |-> FALSE]
    /\ clicked = NoClick

\* onClick of card i, with the render that follows it:
\* data.note && setExpanded(!expanded).
\* (ClickUnguarded: setExpanded(!expanded) whatever the note.)
ClickUnguarded(i) ==
    /\ expanded' = [expanded EXCEPT ![i] = ~expanded[i]]
    /\ clicked' = [card |-> i, was |-> expanded[i]]
    /\ UNCHANGED <<cardRows, appVars, csvVars, fmtVars, renVars>>
Click(i) ==
    /\ expanded' = IF Truthy(cardRows[i].note)
                   THEN [expanded EXCEPT ![i] = ~expanded[i]]
                   ELSE expanded
    /\ clicked' = [card |-> i, was |-> expanded[i]]
    /\ UNCHANGED <<cardRows, appVars, csvVars, fmtVars, renVars>>

\* {data.note && (... {expanded && <p>{data.note}</p>} ...)}
NoteShown(i) == Truthy(cardRows[i].note) /\ expanded[i]

-----------------------------------------------------------------------------
(* The comparison rows in the sections of the card dashboard and in the
   lines of ComparisonTable *)

MaxRows == 3

CategoryCore == Str(<<"c", "o", "r", "e">>)
CategoryAdditional == Str(<<"a", "d", "d", "i", "t", "i", "o", "n", "a", "l">>)

\* row.category as parseCSV stores it: the two section names, the first
\* one capitalised, and the cell None (null).
CategoryPool == {CategoryCore, CategoryAdditional, Str(<<"C", "o", "r", "e">>), Null}

\* The comparison state: up to MaxRows rows, each with its place in the file
\* as id.
RowInputs ==
    UNION {{[i \in 1..k |-> [id |-> i, category |-> cats[i]]] :
               cats \in [1..k -> CategoryPool]} : k \in 0..MaxRows}

IsCore(c) == c.category = CategoryCore
IsAdditional(c) == c.category = CategoryAdditional
IsNotCore(c) == c.category # CategoryCore

\* comparison.filter(c => c.category === 'core')
coreStats(rows) == SelectSeq(rows, IsCore)

\* comparison.filter(c => c.category === 'additional')
\* (additionalStatsRest: every row that is not in the first section.)
additionalStatsRest(rows) == SelectSeq(rows, IsNotCore)
additionalStats(rows) == SelectSeq(rows, IsAdditional)

\* xs.map((x, i) => <... key={i}>): one child per entry, in order, with the
\* entry's index as key.
MapWithKey(xs) == [i \in 1..Len(xs) |-> [key |-> i - 1, row |-> xs[i].id]]

NoChildren == [core |-> <<>>, additional |-> <<>>, lines |-> <<>>]

RowsInit ==
    /\ renIn \in RowInputs
    /\ renOut = NoChildren
    /\ renOp = "idle"

\* The render of App in the card dashboard: the stat cards of Core
\* Statistics and the ComparisonCards of Additional Comparisons.
RenderSections ==
    /\ renOp = "idle"
    /\ renOut' = [core |-> MapWithKey(coreStats(renIn)),
                  additional |-> MapWithKey(additionalStats(renIn)),
                  lines |-> <<>>]
    /\ renOp' = "sections"
    /\ UNCHANGED <<renIn, appVars, csvVars, fmtVars, cardVars>>

\* The render of ComparisonTable in the table dashboard: the lines of tbody.
ComparisonTable(data) == MapWithKey(data)

RenderComparisonTable ==
    /\ renOp = "idle"
    /\ renOut' = [core |-> <<>>, additional |-> <<>>,
                  lines |-> ComparisonTable(renIn)]
    /\ renOp' = "ComparisonTable"
    /\ UNCHANGED <<renIn, appVars, csvVars, fmtVars, cardVars>>
-----------------------------------------------------------------------------
(* Specifications *)

RenIdle ==
    /\ renIn = <<>>
    /\ renOut = <<>>
    /\ renOp = "idle"

CardIdle ==
    /\ cardRows = <<>>
    /\ expanded = <<>>
    /\ clicked = NoClick

\* The App component from mount on.
Init ==
    /\ AppInit
    /\ CsvIdle
    /\ FmtIdle
    /\ RenIdle
    /\ CardIdle

Next ==
    \/ RunEffect
    \/ \E i \in Requests : \E r \in Responses(i) : FetchFulfil(i, r)
    \/ \E i \in Requests : FetchReject(i)
    \/ \E i \in Requests : TextFulfil(i)
    \/ \E i \in Requests : TextReject(i)
    \/ SetMetadata
    \/ SetComparison
    \/ SetElements
    \/ SetPolicyImpacts
    \/ SetLoading
    \/ CatchSetError
    \/ CatchSetLoading

Spec == Init /\ [][Next]_vars

\* The same program when every request and every body read settles and
\* every continuation of loadData that is ready to run is run.
FetchSettles(i) ==
    \/ \E r \in Responses(i) : FetchFulfil(i, r)
    \/ FetchReject(i)

TextSettles(i) == TextFulfil(i) \/ TextReject(i)

Positions ==
    {"mounted", "awaitFetches", "awaitTexts", "setMetadata", "setComparison",
     "setElements", "setPolicyImpacts", "setLoading", "catchSetError",
     "catchSetLoading", "done"}

\* A continuation of loadData that has started goes on to its next
\* statement: the only steps of Next taken while Running are the setters,
\* and each of them moves pc.
LoadDataRuns == Running /\ \E p \in Positions \ {pc} : pc' = p

SpecLive ==
    /\ Init
    /\ [][Next]_vars
    /\ WF_vars(RunEffect)
    /\ \A i \in Requests : WF_vars(FetchSettles(i)) /\ WF_vars(TextSettles(i))
    /\ WF_pc(LoadDataRuns)

\* parseCSV applied to every text of the input pool.
InitCsv ==
    /\ AppInit
    /\ CsvInit
    /\ FmtIdle
    /\ RenIdle
    /\ CardIdle

NextCsv == ParseCSVCall

SpecCsv == InitCsv /\ [][NextCsv]_vars

\* The formatting helpers applied to every input of the pools.
InitFmt ==
    /\ AppInit
    /\ CsvIdle
    /\ FmtInit
    /\ RenIdle
    /\ CardIdle

NextFmt ==
    \/ CallFormatValue
    \/ CallFormatDiff
    \/ CallStatusBadge
    \/ RenderDiffCell

SpecFmt == InitFmt /\ [][NextFmt]_vars

\* ElementsChart rendered on every list of the input pool.
InitChart ==
    /\ AppInit
    /\ CsvIdle
    /\ FmtIdle
    /\ ChartInit
    /\ CardIdle

NextChart == RenderElementsChart

SpecChart == InitChart /\ [][NextChart]_vars

\* The cards of one dashboard and any sequence of clicks on them.
InitCard ==
    /\ AppInit
    /\ CsvIdle
    /\ FmtIdle
    /\ RenIdle
    /\ CardInit

NextCard == \E i \in 1..Len(cardRows) : Click(i)

SpecCard == InitCard /\ [][NextCard]_vars

\* The two dashboards rendered on every list of rows of the input pool.
InitRows ==
    /\ AppInit
    /\ CsvIdle
    /\ FmtIdle
    /\ RowsInit
    /\ CardIdle

NextRows ==
    \/ RenderSections
    \/ RenderComparisonTable

SpecRows == InitRows /\ [][NextRows]_vars
-----------------------------------------------------------------------------
(* Claims about App *)

AllRead == \A i \in Requests : fetchSt[i] = "fulfilled" /\ textSt[i] = "fulfilled"

\* The messages of the rejections that have happened.
RejectionMessages ==
    {FetchError(i) : i \in {j \in Requests : fetchSt[j] = "rejected"}}
        \cup {TextError(i) : i \in {j \in Requests : textSt[j] = "rejected"}}

DataInitial ==
    /\ metadata = MetaNull
    /\ comparison = <<>>
    /\ elements = <<>>
    /\ policyImpacts = <<>>

DataLoaded ==
    /\ metadata = ArrayFirst(parseCSV(resp[1].body))
    /\ comparison = parseCSV(resp[2].body)
    /\ elements = parseCSV(resp[3].body)
    /\ policyImpacts = parseCSV(resp[4].body)

\* C1: when the four fetches and the four body reads have all fulfilled, in
\* whatever order, loadData ends with loading = false, error = null and each
\* of the four datasets parsed from the text of its own file (metadata being
\* the first row); and in every state a dataset is either still initial or
\* parsed from its own file's text, never from another file's.
C1_AllSucceedLoadsOwnFiles ==
    /\ (pc = "done" /\ AllRead) => (~loading /\ error = Null /\ DataLoaded)
    /\ metadata \in {MetaNull, ArrayFirst(parseCSV(resp[1].body))}
    /\ comparison \in {<<>>, parseCSV(resp[2].body)}
    /\ elements \in {<<>>, parseCSV(resp[3].body)}
    /\ policyImpacts \in {<<>>, parseCSV(resp[4].body)}

\* C1 witness: the four files were served and read, the bodies arrived in
\* another order than the requests were made, and the dashboard shows the
\* parsed metadata row and the two comparison rows.
C1_Witness ==
    /\ pc = "done"
    /\ AllRead
    /\ \A i \in Requests : resp[i].ok
    /\ arrival = <<4, 2, 1, 3>>
    /\ View = "dashboard"
    /\ metadata.t = "object"
    /\ Len(comparison) = 2

\* C2: when a fetch or a body read has rejected, loadData ends with
\* loading = false, error the message of one rejection that happened (never
\* a combination), the four datasets at their initial values, and the error
\* view rendered.
C2_RejectionShowsOneError ==
    (pc = "done" /\ RejectionMessages # {}) =>
        /\ ~loading
        /\ error \in RejectionMessages
        /\ error = caught
        /\ DataInitial
        /\ View = "error"

\* C2 witness: two requests rejected, one message is shown.
C2_Witness ==
    /\ pc = "done"
    /\ fetchSt[2] = "rejected"
    /\ fetchSt[3] = "rejected"
    /\ error = FetchError(3)
    /\ View = "error"

\* C3 (as claimed): the dashboard is rendered only when all four files were
\* successfully retrieved; a request answered with a non-success HTTP
\* status leads to the error view and its body is never parsed into a
\* dataset.
C3_DashboardOnlyIfAllRetrieved ==
    /\ View = "dashboard" => \A i \in Requests : resp[i].ok
    /\ (pc = "done" /\ \E i \in Requests : fetchSt[i] = "fulfilled" /\ ~resp[i].ok)
          => View = "error"
    /\ \A i \in Requests :
          (fetchSt[i] = "fulfilled" /\ ~resp[i].ok) =>
              /\ i = 2 => comparison = <<>>
              /\ i = 3 => elements = <<>>
              /\ i = 4 => policyImpacts = <<>>

\* C10: App renders the loading view exactly while loading is true, the
\* error view exactly when loading is false and error is not null, the
\* dashboard exactly when loading is false and error is null; the state at
\* mount is the loading view; and the dashboard is rendered only after all
\* four datasets have been set (while only some are set, the view is the
\* loading view).
C10_OneOfThreeViews ==
    /\ View \in {"loading", "error", "dashboard"}
    /\ View = "loading" <=> loading
    /\ View = "error" <=> (~loading /\ error # Null)
    /\ View = "dashboard" <=> (~loading /\ error = Null)
    /\ pc = "mounted" => View = "loading"
    /\ View = "dashboard" => (pc = "done" /\ AllRead /\ DataLoaded)
    /\ pc \in {"setComparison", "setElements", "setPolicyImpacts", "setLoading"}
          => View = "loading"

\* C10 witness: metadata and comparison are set, elements and policyImpacts
\* are not yet, and the loading view is still what is rendered.
C10_Witness ==
    /\ pc = "setElements"
    /\ metadata.t = "object"
    /\ comparison # <<>>
    /\ elements = <<>>
    /\ policyImpacts = <<>>
    /\ View = "loading"

\* The setters of the try block that have been called.
SettersCalled ==
    CASE pc = "setComparison" -> 1
      [] pc = "setElements" -> 2
      [] pc = "setPolicyImpacts" -> 3
      [] pc = "setLoading" -> 4
      [] pc = "done" /\ caught = Null -> 4
      [] OTHER -> 0

Datasets == <<metadata, comparison, elements, policyImpacts>>

\* C11: the four fetches are issued once and never again (no request and no
\* body read goes back to pending or to unsent once it has left that state);
\* once loading is false it stays false; once error is set it keeps its
\* value; a dataset whose setter has been called keeps its value; and once
\* the error view or the dashboard view is shown, the view, the error and
\* the four datasets never change again.
C11_LoadOnceThenFrozen ==
    [][ /\ \A i \in Requests :
            /\ fetchSt'[i] = "unsent" => fetchSt[i] = "unsent"
            /\ fetchSt'[i] = "pending" => fetchSt[i] \in {"unsent", "pending"}
            /\ textSt'[i] = "unread" => textSt[i] = "unread"
            /\ textSt'[i] = "pending" => textSt[i] \in {"unread", "pending"}
        /\ ~loading => ~loading'
        /\ error # Null => error' = error
        /\ \A k \in 1..4 : k <= SettersCalled => Datasets'[k] = Datasets[k]
        /\ View \in {"error", "dashboard"} =>
               /\ View' = View
               /\ error' = error
               /\ Datasets' = Datasets
      ]_vars

\* The error view is shown and a second request has failed after the first
\* failure was caught.
C11_Witness ==
    /\ pc = "done"
    /\ View = "error"
    /\ Cardinality({i \in Requests : fetchSt[i] = "rejected"}) >= 2
    /\ \E i \in Requests : fetchSt[i] = "rejected" /\ error # FetchError(i)

\* The dashboard view is shown with the four datasets set.
C11_DashboardWitness ==
    /\ pc = "done"
    /\ View = "dashboard"
    /\ SettersCalled = 4
    /\ comparison # <<>>

\* C12: when every fetch and every body read settles, App eventually
\* leaves the loading view and stays out of it, in whatever order the
\* settlements come and whatever the four bodies hold (an empty text, a
\* header line only, an error page).
C12_LeavesLoading == <>[](View # "loading")

\* The loading view has been left after the bodies were read out of request
\* order, with an empty elements file and a metadata file without a row.
C12_Witness ==
    /\ pc = "done"
    /\ View # "loading"
    /\ arrival # <<1, 2, 3, 4>>
    /\ Len(arrival) = 4
    /\ resp[3].body = EmptyCsv
    /\ metadata.t = "undefined"

\* The loading view has been left by way of the catch block after a body
\* read failed.
C12_RejectedReadWitness ==
    /\ pc = "done"
    /\ View # "loading"
    /\ \E i \in Requests : textSt[i] = "rejected" /\ error = TextError(i)
-----------------------------------------------------------------------------
(* Claims about parseCSV *)

Range(f) == {f[i] : i \in DOMAIN f}

Commas(field) == Cardinality({c \in DOMAIN field : field[c] = ","})

\* No field of the data lines holds a comma or a newline.
NoEmbeddedDelimiter ==
    \A k \in DOMAIN csvIn.rows : \A j \in DOMAIN csvIn.rows[k] :
        \A c \in DOMAIN csvIn.rows[k][j] : csvIn.rows[k][j][c] \notin {",", "\n"}

\* The lines of the text after trimming the whole text, and its header names.
TrimmedLines == Split(Trim(TextOf(csvIn)), "\n")
HeaderFields == Split(TrimmedLines[1], ",")
FieldsOfLine(k) == Split(TrimmedLines[k + 1], ",")

DistinctHeaders ==
    \A i, j \in DOMAIN csvIn.headers : csvIn.headers[i] = csvIn.headers[j] => i = j

\* Column i is the last one with its header name.
LastWithName(i) == \A j \in (i + 1)..Len(HeaderFields) : HeaderFields[j] # HeaderFields[i]

\* Data line k of the input reaches the parser as written (trimming the whole
\* text can only touch the end of the last line).
Untrimmed(k) == k <= Len(csvOut) /\ TrimmedLines[k + 1] = LineOf(csvIn.rows[k])

\* The text has as many lines after trimming as the input has lines.
NothingTrimmedAway == Len(TrimmedLines) = Len(csvIn.rows) + 1

AllColumns == 1..Len(HeaderFields)
LastColumns == {i \in 1..Len(HeaderFields) : LastWithName(i)}

\* One object per line, in order, keyed by the header names, the value of
\* each column of cols converted from the field of the same position.
RowsFollowLines(cols) ==
    /\ Len(csvOut) = Len(TrimmedLines) - 1
    /\ NothingTrimmedAway => Len(csvOut) = Len(csvIn.rows)
    /\ csvIn.rows = <<>> => csvOut = <<>>
    /\ \A k \in DOMAIN csvOut :
          /\ DOMAIN csvOut[k] = Range(HeaderFields)
          /\ \A i \in cols :
                /\ csvOut[k][HeaderFields[i]] = ConvertField(FieldsOfLine(k), i)
                /\ (Untrimmed(k) /\ i <= Len(csvIn.rows[k])) =>
                      csvOut[k][HeaderFields[i]]
                          = StoreValue(StripQuotes(Str(csvIn.rows[k][i])))

\* C4 (as claimed): for a text whose fields hold no comma and no newline,
\* parseCSV returns one object per line after the header line of the trimmed
\* text, in order; each object has exactly the header names as keys and the
\* value under the i-th header comes from the i-th field of the line; a
\* header-only text gives the empty list.
C4_Original ==
    (csvDone /\ NoEmbeddedDelimiter) => RowsFollowLines(AllColumns)

\* C4 (amended): the same, the value under a header name being that of the
\* i-th field for the last column i that carries the name (a repeated header
\* name is one key, and the later column overwrites the earlier).
C4_RowsFollowLines ==
    (csvDone /\ NoEmbeddedDelimiter) => RowsFollowLines(LastColumns)

\* C4 witness: three distinct headers, four data lines (one of them blank),
\* whitespace around the text, parsed into four objects.
C4_Witness ==
    /\ csvDone
    /\ NoEmbeddedDelimiter
    /\ csvIn.headers = SubSeq(HeaderNames, 1, 3)
    /\ csvIn.pad[2] # <<>>
    /\ Len(csvIn.rows) = 4
    /\ Len(csvOut) = 4
    /\ csvOut[1][HeaderNames[2]] = Num(12)
    /\ csvOut[2][HeaderNames[3]] = Num(7)
    /\ csvOut[4][HeaderNames[1]] = Num(0 - 3)

\* C4 witness of the amended case: the header line is h,k,h and the key h
\* holds the third field.
C4_RepeatedHeaderWitness ==
    /\ csvDone
    /\ NoEmbeddedDelimiter
    /\ csvIn.headers = <<HeaderNames[1], HeaderNames[2], HeaderNames[1]>>
    /\ csvIn.rows = << <<FText, FNone, FNumber>> >>
    /\ csvOut[1][HeaderNames[1]] = Num(12)
\* A double-quoted field that holds a comma.
QuotedWithComma(field) ==
    /\ Commas(field) >= 1
    /\ Len(field) >= 2
    /\ field[1] = Quote
    /\ field[Len(field)] = Quote

RECURSIVE PiecesBefore(_, _)
\* The number of comma-separated pieces of the fields before field j.
PiecesBefore(row, j) ==
    IF j <= 1 THEN 0
    ELSE PiecesBefore(row, j - 1) + 1 + Commas(row[j - 1])

\* The value a field without embedded comma is given by the parser.
FieldValue(field) == StoreValue(StripQuotes(Str(field)))

\* C5 (as claimed): on a line where a double-quoted field holds a comma, the
\* field is not returned as one value; its first and last piece are stored
\* as text that still carries the quote character; every field after it is
\* stored under the header one position to its right; nothing is stored
\* beyond the headers.
C5_Original ==
    (csvDone /\ DistinctHeaders) =>
        \A k \in DOMAIN csvIn.rows : Untrimmed(k) =>
            LET row == csvIn.rows[k]
                nH == Len(csvIn.headers)
                H(i) == csvIn.headers[i]
            IN \A j \in DOMAIN row :
                  (QuotedWithComma(row[j]) /\ \A i \in 1..(j - 1) : Commas(row[i]) = 0) =>
                      LET ps == Split(row[j], ",")
                          last == j + Len(ps) - 1
                      IN /\ \A h \in DOMAIN csvOut[k] : csvOut[k][h] # Str(Slice1(row[j]))
                         /\ csvOut[k][H(j)] = Str(ps[1]) /\ Quote \in Range(ps[1])
                         /\ last <= nH =>
                               csvOut[k][H(last)] = Str(ps[Len(ps)])
                                   /\ Quote \in Range(ps[Len(ps)])
                         /\ \A i \in (j + 1)..Len(row) :
                               (Commas(row[i]) = 0 /\ i + 1 <= nH) =>
                                   csvOut[k][H(i + 1)] = FieldValue(row[i])
                         /\ DOMAIN csvOut[k] = Range(csvIn.headers)

\* C5 (amended): every field is cut at each of its commas, quoted or not, and
\* each piece is a field of its own, converted like any other: the first
\* piece of a quoted field keeps its opening quote and the last its closing
\* quote, unless the piece itself starts and ends with a quote character (the
\* quote character alone is stored as null); a later field is stored under
\* the header as many positions to its right as there are commas inside the
\* fields before it; pieces beyond the number of headers are dropped.
C5_SplitAtEveryComma ==
    (csvDone /\ DistinctHeaders) =>
        \A k \in DOMAIN csvIn.rows : Untrimmed(k) =>
            LET row == csvIn.rows[k]
                nH == Len(csvIn.headers)
                H(i) == csvIn.headers[i]
            IN /\ DOMAIN csvOut[k] = Range(csvIn.headers)
               /\ \A j \in DOMAIN row :
                     LET ps == Split(row[j], ",")
                     IN /\ QuotedWithComma(row[j]) =>
                              \A h \in DOMAIN csvOut[k] : csvOut[k][h] # Str(Slice1(row[j]))
                        /\ \A q \in DOMAIN ps :
                              LET pos == PiecesBefore(row, j) + q
                              IN pos <= nH =>
                                    /\ csvOut[k][H(pos)] = FieldValue(ps[q])
                                    /\ (QuotedWithComma(row[j]) /\ q \in {1, Len(ps)}) =>
                                          csvOut[k][H(pos)] =
                                              IF StartsWith(ps[q], Quote) /\ EndsWith(ps[q], Quote)
                                              THEN FieldValue(Slice1(ps[q]))
                                              ELSE Str(ps[q])

\* C5 witness: headers h,k,m and the line "a,b",12: h and k hold the two
\* halves with their quotes and 12 is stored under m.
C5_Witness ==
    /\ csvDone
    /\ csvIn.headers = SubSeq(HeaderNames, 1, 3)
    /\ csvIn.rows = << <<FQuotedComma, FNumber>> >>
    /\ csvOut[1][HeaderNames[1]] = Str(<<Quote, "a">>)
    /\ csvOut[1][HeaderNames[2]] = Str(<<"b", Quote>>)
    /\ csvOut[1][HeaderNames[3]] = Num(12)

\* C5 witness of the amended cases: the line ",b",12,a under h,k,m stores
\* null under h; and in the line "a,b,c",a the field a is dropped.
C5_LoneQuoteWitness ==
    /\ csvDone
    /\ csvIn.headers = SubSeq(HeaderNames, 1, 3)
    /\ csvIn.rows = << <<FQuotedLeadingComma, FNumber, FText>>, TailC[1] >>
    /\ csvOut[1][HeaderNames[1]] = Null
    /\ csvOut[1][HeaderNames[3]] = Num(12)
    /\ csvOut[2][HeaderNames[3]] = Str(<<"c", Quote>>)

\* The text that remains of a field after removing its enclosing quotes.
Unquoted(field) ==
    IF Len(field) >= 1 /\ field[1] = Quote /\ field[Len(field)] = Quote
    THEN SubSeq(field, 2, Len(field) - 1)
    ELSE field

\* C6 (as claimed): every stored value is a number when the unquoted field
\* text is numeric, null when it is empty or None, and otherwise the
\* unquoted text; it is never undefined, also on lines with fewer fields
\* than headers.
C6_Original ==
    csvDone =>
        \A k \in DOMAIN csvOut : \A i \in LastColumns :
            LET v == csvOut[k][HeaderFields[i]]
                fields == FieldsOfLine(k)
            IN /\ v.t \in {"num", "null", "str"}
               /\ i <= Len(fields) =>
                     LET u == Unquoted(fields[i])
                     IN v = IF IsDecimal(u) THEN Num(DecimalValue(u))
                            ELSE IF u = <<>> \/ u = FNone THEN Null
                            ELSE Str(u)

\* C6 (amended): every stored value is undefined when the line has no field
\* at the header's position; otherwise null when the unquoted field text is
\* empty or None, NaN when it is only whitespace, a number when it is
\* numeric, and otherwise the unquoted text.
C6_StoredKinds ==
    csvDone =>
        \A k \in DOMAIN csvOut : \A i \in LastColumns :
            LET v == csvOut[k][HeaderFields[i]]
                fields == FieldsOfLine(k)
            IN IF i > Len(fields) THEN v = Undefined
               ELSE LET u == Unquoted(fields[i])
                    IN v = IF u = <<>> \/ u = FNone THEN Null
                           ELSE IF Trim(u) = <<>> THEN NaN
                           ELSE IF IsDecimal(Trim(u)) THEN Num(DecimalValue(Trim(u)))
                           ELSE Str(u)

\* C6 witness: under h,k,m the line None,12 stores null, a number and
\* undefined; the line "x", ,"7" stores text, NaN and a number; the blank
\* line stores undefined under k; the line -3,"",a stores null under k.
C6_Witness ==
    /\ csvDone
    /\ csvIn.headers = SubSeq(HeaderNames, 1, 3)
    /\ csvIn.rows = << <<FNone, FNumber>> >> \o TailB
    /\ csvOut[1][HeaderNames[1]] = Null
    /\ csvOut[1][HeaderNames[2]] = Num(12)
    /\ csvOut[1][HeaderNames[3]] = Undefined
    /\ csvOut[2][HeaderNames[1]] = Str(<<"x">>)
    /\ csvOut[2][HeaderNames[2]] = NaN
    /\ csvOut[2][HeaderNames[3]] = Num(7)
    /\ csvOut[3][HeaderNames[1]] = Null
    /\ csvOut[3][HeaderNames[2]] = Undefined
    /\ csvOut[4][HeaderNames[2]] = Null
-----------------------------------------------------------------------------
(* Claims about formatValue, formatDiff and StatusBadge *)

\* The symbol put before and after the value for a unit.
UnitPrefix(unit) == IF unit \in {UnitPound, UnitBn} THEN <<Pound>> ELSE <<>>
UnitSuffix(unit) ==
    CASE unit = UnitPound -> <<>>
      [] unit = UnitBn -> <<"b", "n">>
      [] unit = UnitPct -> <<"%">>
      [] OTHER -> ToStr(unit)

\* C7: formatValue(val, unit, pct) is the dash placeholder when val is null
\* or undefined, whatever unit and pct; otherwise it is the value (with its
\* thousands separators for the units pound and k) between the prefix and
\* the suffix of its unit, followed by " (pct%)" exactly when pct is neither
\* null nor undefined, a pct of 0 included.
C7_FormatValue ==
    fmtOp = "formatValue" =>
        LET val == fmtIn.val
            unit == fmtIn.unit
            pct == fmtIn.pct
            shown == IF unit \in {UnitPound, UnitK} THEN ToLocaleString(val) ELSE ToStr(val)
            body == UnitPrefix(unit) \o shown \o UnitSuffix(unit)
            tail == <<" ", "(">> \o ToStr(pct) \o <<"%", ")">>
        IN IF val \in {Null, Undefined} THEN fmtOut = <<Dash>>
           ELSE /\ pct \in {Null, Undefined} => fmtOut = body
                /\ pct \notin {Null, Undefined} => fmtOut = body \o tail
                /\ (Len(fmtOut) > Len(body)) <=> pct \notin {Null, Undefined}

\* C7 witness: formatValue(1030, 'k', 0) = "1,030k (0%)".
C7_Witness ==
    /\ fmtOp = "formatValue"
    /\ fmtIn.val = Num(1030)
    /\ fmtIn.unit = UnitK
    /\ fmtIn.pct = Num(0)
    /\ fmtOut = <<"1", ",", "0", "3", "0", "k", " ", "(", "0", "%", ")">>

\* C8: formatDiff(val, unit) is the dash placeholder when val is null or
\* undefined; otherwise it starts with a plus sign exactly when val >= 0, a
\* negative val shows its own minus sign and no plus sign, and the value
\* stands after the pound sign for the units pound and bn and before bn, pp
\* (unit %) or the unit text (every other unit).
C8_FormatDiff ==
    fmtOp = "formatDiff" =>
        LET val == fmtIn.val
            unit == fmtIn.unit
            plus == IF val.t = "num" /\ val.n >= 0 THEN <<"+">> ELSE <<>>
            suffix == IF unit = UnitPct THEN <<"p", "p">> ELSE UnitSuffix(unit)
        IN IF val \in {Null, Undefined} THEN fmtOut = <<Dash>>
           ELSE /\ StartsWith(fmtOut, "+") <=> (val.t = "num" /\ val.n >= 0)
                /\ fmtOut = plus \o UnitPrefix(unit) \o ToStr(val) \o suffix
                /\ (val.t = "num" /\ val.n < 0) =>
                      /\ \A c \in DOMAIN fmtOut : fmtOut[c] # "+"
                      /\ fmtOut[Len(UnitPrefix(unit)) + 1] = "-"

\* C8 witness: formatDiff(-1234, 'bn') = "POUND-1234bn" and no plus sign.
C8_Witness ==
    /\ fmtOp = "formatDiff"
    /\ fmtIn.val = Num(0 - 1234)
    /\ fmtIn.unit = UnitBn
    /\ fmtOut = <<Pound, "-", "1", "2", "3", "4", "b", "n">>

\* C8 witness of the boundary: formatDiff(0, '%') = "+0pp".
C8_ZeroWitness ==
    /\ fmtOp = "formatDiff"
    /\ fmtIn.val = Num(0)
    /\ fmtIn.unit = UnitPct
    /\ fmtOut = <<"+", "0", "p", "p">>

\* C9 (as claimed): StatusBadge gives close_match, moderate_diff and
\* large_discrepancy each its own label and colours, gives every other
\* status, null and undefined included, the moderate_diff badge, and never
\* renders without a label.
C9_StatusBadge ==
    fmtOp = "StatusBadge" =>
        LET status == fmtIn.status
        IN /\ status = Str(<<"close_match">>) => fmtOut = BadgeCloseMatch
           /\ status = Str(<<"moderate_diff">>) => fmtOut = BadgeModerateDiff
           /\ status = Str(<<"large_discrepancy">>) => fmtOut = BadgeLargeDiscrepancy
           /\ status \notin {Str(<<"close_match">>), Str(<<"moderate_diff">>),
                             Str(<<"large_discrepancy">>)} => fmtOut = BadgeModerateDiff
           /\ fmtOut.label # Undefined
           /\ Cardinality({BadgeCloseMatch.label, BadgeModerateDiff.label,
                           BadgeLargeDiscrepancy.label}) = 3
           /\ Cardinality({<<b.bg, b.text>> :
                 b \in {BadgeCloseMatch, BadgeModerateDiff, BadgeLargeDiscrepancy}}) = 3
-----------------------------------------------------------------------------
(* Claims about ElementsChart *)

WidthLeq(a, b) ==
    /\ a.t = "ratio"
    /\ b.t = "ratio"
    /\ a.n * b.d <= b.n * a.d

WidthsInOrder ==
    \A i, j \in 1..Len(renIn) :
        renIn[i].expenditure_bn <= renIn[j].expenditure_bn
            => WidthLeq(renOut[i], renOut[j])

LargestIsFull ==
    \A i \in 1..Len(renIn) :
        (\A j \in 1..Len(renIn) :
            renIn[j].expenditure_bn <= renIn[i].expenditure_bn)
            => renOut[i] = Ratio(100 * renIn[i].expenditure_bn,
                                 renIn[i].expenditure_bn)

WidthsWithinBar ==
    \A i \in 1..Len(renIn) :
        WidthLeq(Ratio(0, 1), renOut[i]) /\ WidthLeq(renOut[i], Ratio(100, 1))

\* C13: for every non-empty list of elements with non-negative
\* expenditures, every bar width lies between 0% and 100%, an element with
\* the largest expenditure gets exactly 100%, and the widths are ordered as
\* the expenditures are; the list where every expenditure is zero included.
C13_BarWidths ==
    (renOp = "ElementsChart" /\ renIn # <<>>) =>
        /\ Len(renOut) = Len(renIn)
        /\ WidthsWithinBar
        /\ \A i \in 1..Len(renIn) :
               (\A j \in 1..Len(renIn) :
                   renIn[j].expenditure_bn <= renIn[i].expenditure_bn)
                   => WidthLeq(renOut[i], Ratio(100, 1))
                      /\ WidthLeq(Ratio(100, 1), renOut[i])
        /\ WidthsInOrder

\* The same three properties for the lists with some positive expenditure.
C13_PositiveMaximum ==
    (renOp = "ElementsChart" /\ \E i \in 1..Len(renIn) :
                                     renIn[i].expenditure_bn > 0) =>
        /\ Len(renOut) = Len(renIn)
        /\ WidthsWithinBar
        /\ LargestIsFull
        /\ WidthsInOrder

\* Every width is NaN exactly when the list is non-empty and all of its
\* expenditures are zero.
C13_AllZeroIsNaN ==
    renOp = "ElementsChart" =>
        \A i \in 1..Len(renIn) :
            renOut[i] = NotANumber
                <=> \A j \in 1..Len(renIn) : renIn[j].expenditure_bn = 0
-----------------------------------------------------------------------------
(* Claims about ComparisonCard *)

HasNote(i) == Truthy(cardRows[i].note)

\* What the click that a step has just made did, the clicked card being
\* clicked'.card.
ClickEffect ==
    LET i == clicked'.card
    IN /\ i \in 1..Len(cardRows)
       /\ HasNote(i) => expanded'[i] = ~expanded[i]
       /\ ~HasNote(i) => expanded'[i] = expanded[i]
       /\ \A j \in 1..Len(cardRows) \ {i} : expanded'[j] = expanded[j]
       /\ clicked.card = i => expanded'[i] = clicked.was

C14_NoNoteWitness ==
    /\ Len(cardRows) = 2
    /\ clicked.card = 2
    /\ ~HasNote(2)
    /\ cardRows[2].note = Num(0)
    /\ expanded = <<TRUE, FALSE>>

\* Card 1 has been collapsed again by a second click.
C14_TwoClicksWitness ==
    /\ clicked = [card |-> 1, was |-> TRUE]
    /\ ~expanded[1]
    /\ HasNote(1)
-----------------------------------------------------------------------------
(* Claims about the sections and the table lines *)

RowIds == 1..Len(renIn)

\* How many children of the list show row r.
Shown(children, r) ==
    Cardinality({i \in 1..Len(children) : children[i].row = r})

\* The children follow the order of the file.
InFileOrder(children) ==
    \A i, j \in 1..Len(children) :
        i < j => children[i].row < children[j].row

\* Every row is a line of the table, once, in the order of the file.
TableShowsAll ==
    renOp = "ComparisonTable" =>
        /\ \A r \in RowIds : Shown(renOut.lines, r) = 1
        /\ Len(renOut.lines) = Len(renIn)
        /\ InFileOrder(renOut.lines)

\* C15 as stated: every row is displayed exactly once and in file order; in
\* the card dashboard in Core Statistics when its category is core, in
\* Additional Comparisons when it is additional, never in both; in the table
\* dashboard as a table line.
C15_Original ==
    /\ renOp = "sections" =>
           /\ \A r \in RowIds :
                  /\ Shown(renOut.core, r) + Shown(renOut.additional, r) = 1
                  /\ IsCore(renIn[r]) => Shown(renOut.core, r) = 1
                  /\ IsAdditional(renIn[r]) => Shown(renOut.additional, r) = 1
           /\ InFileOrder(renOut.core)
           /\ InFileOrder(renOut.additional)
    /\ TableShowsAll

\* C15: in the card dashboard a row is displayed exactly once in Core
\* Statistics and not in Additional Comparisons when its category is core,
\* exactly once in Additional Comparisons and not in Core Statistics when
\* its category is additional, and in neither section when its category is
\* anything else; each section keeps the order of the file. In the table
\* dashboard every row is a table line, once and in the order of the file.
C15_RowsBySection ==
    /\ renOp = "sections" =>
           /\ \A r \in RowIds :
                  /\ Shown(renOut.core, r) = IF IsCore(renIn[r]) THEN 1 ELSE 0
                  /\ Shown(renOut.additional, r)
                         = IF IsAdditional(renIn[r]) THEN 1 ELSE 0
           /\ \A i \in 1..Len(renOut.core) : renOut.core[i].row \in RowIds
           /\ \A i \in 1..Len(renOut.additional) :
                  renOut.additional[i].row \in RowIds
           /\ InFileOrder(renOut.core)
           /\ InFileOrder(renOut.additional)
    /\ TableShowsAll

\* The sections rendered for an additional row, a row of another category
\* and a core row, in this order in the file.
C15_Witness ==
    /\ renOp = "sections"
    /\ Len(renIn) = 3
    /\ IsAdditional(renIn[1])
    /\ renIn[2].category = Null
    /\ IsCore(renIn[3])
    /\ Len(renOut.core) = 1
    /\ Len(renOut.additional) = 1

\* The table rendered for three rows of which one has another category.
C15_TableWitness ==
    /\ renOp = "ComparisonTable"
    /\ Len(renIn) = 3
    /\ renIn[2].category = Null
    /\ Len(renOut.lines) = 3
-----------------------------------------------------------------------------
(* Claims about the difference cell of ComparisonTable *)

BelowZero(v) == v.t = "num" /\ v.n < 0

\* C16: the difference cell has class positive exactly when its text starts
\* with a plus sign and class negative exactly when the difference value is
\* below zero; a null difference value is shown as the dash with neither
\* class positive nor class negative.
C16_DiffCellStyle ==
    fmtOp = "DiffCell" =>
        /\ fmtOut.class = "positive" <=> StartsWith(fmtOut.text, "+")
        /\ fmtOut.class = "negative" <=> BelowZero(fmtIn.val)
        /\ fmtIn.val = Null =>
               /\ fmtOut.text = <<Dash>>
               /\ fmtOut.class \notin {"positive", "negative"}

\* For a difference value that is a number the class follows the sign and
\* agrees with the text.
C16_NumbersAgree ==
    (fmtOp = "DiffCell" /\ fmtIn.val.t = "num") =>
        /\ fmtOut.class = "positive" <=> StartsWith(fmtOut.text, "+")
        /\ fmtOut.class = "negative" <=> BelowZero(fmtIn.val)

\* A null difference value is shown as the dash in a cell of class positive.
C16_NullIsPositiveDash ==
    (fmtOp = "DiffCell" /\ fmtIn.val = Null) =>
        fmtOut = [class |-> "positive", text |-> <<Dash>>]
====
